---- MODULE Spec2Model ----
(***************************************************************************)
(* The scrypt command-line driver (main.c): option parsing, the choice of  *)
(* the passphrase method, the opening of the input and output files, the   *)
(* two-phase decryption (prep, copy), encryption, the info mode, cleanup   *)
(* and the exit status.  One run of main() is one behaviour; every action  *)
(* is one block of main(), in the order of the source.                     *)
(*                                                                         *)
(* C strings are sequences of one-character strings.  Numeric option       *)
(* arguments are records [num, val]: num says whether the text is a        *)
(* numeral, val is its value.  Memory sizes are counted in MiB, the        *)
(* memory fraction in thousandths, times in seconds.                       *)
(***************************************************************************)
EXTENDS Integers, Sequences, FiniteSets, TLC

\* ------------------------------------------------------------------ bounds

\* The most options one command line of the model holds.
MaxArgs == 4

\* ------------------------------------------------------- program constants

\* PARSENUM(&params.logN, optarg, 10, 2048)
LogNMin == 10
LogNMax == 2048
\* PARSENUM(&params.r, optarg, 1, 128)
RMin == 1
RMax == 128
\* PARSENUM(&params.p, optarg, 1, 128)
PMin == 1
PMax == 128
\* PARSENUM(&params.maxmemfrac, optarg, 0, 1), in thousandths
MemFracMin == 0
MemFracMax == 1000
\* PARSENUM(&params.maxtime, optarg, 0, INFINITY)
MaxTimeMin == 0

\* enum passphrase_entry
PASSPHRASE_UNSET == "PASSPHRASE_UNSET"
PASSPHRASE_TTY_STDIN == "PASSPHRASE_TTY_STDIN"
PASSPHRASE_STDIN_ONCE == "PASSPHRASE_STDIN_ONCE"
PASSPHRASE_TTY_ONCE == "PASSPHRASE_TTY_ONCE"
PASSPHRASE_ENV == "PASSPHRASE_ENV"
PASSPHRASE_FILE == "PASSPHRASE_FILE"

\* The library's result codes, as main()'s switch names them.
SCRYPT_OK == "SCRYPT_OK"
SCRYPT_ELIMIT == "SCRYPT_ELIMIT"
SCRYPT_ECLOCK == "SCRYPT_ECLOCK"
SCRYPT_EKEY == "SCRYPT_EKEY"
SCRYPT_ESALT == "SCRYPT_ESALT"
SCRYPT_EOPENSSL == "SCRYPT_EOPENSSL"
SCRYPT_ENOMEM == "SCRYPT_ENOMEM"
SCRYPT_EINVAL == "SCRYPT_EINVAL"
SCRYPT_EVERSION == "SCRYPT_EVERSION"
SCRYPT_ETOOBIG == "SCRYPT_ETOOBIG"
SCRYPT_ETOOSLOW == "SCRYPT_ETOOSLOW"
SCRYPT_EPASS == "SCRYPT_EPASS"
SCRYPT_EWRFILE == "SCRYPT_EWRFILE"
SCRYPT_ERDFILE == "SCRYPT_ERDFILE"
SCRYPT_EPARAM == "SCRYPT_EPARAM"

\* ------------------------------------------------------------- C strings

NUL == "NUL"

\* s[i] of a NUL-terminated string (1-based); NUL at and past the end.
CharAt(s, i) == IF i <= Len(s) THEN s[i] ELSE NUL

\* strchr(s, c): the index of the first c in s, 0 for NULL.
strchr(s, c) ==
    IF \E i \in 1..Len(s) : s[i] = c
    THEN CHOOSE i \in 1..Len(s) : s[i] = c /\ \A j \in 1..(i - 1) : s[j] # c
    ELSE 0

\* &s[i]: the string that starts after the first i characters of s.
StrFrom(s, i) == SubSeq(s, i + 1, Len(s))

\* strncmp(a, b, n) == 0: a and b agree on their first n characters, or up
\* to and including the terminator when that comes sooner.
strncmp0(a, b, n) ==
    \A i \in 1..n :
        (\A j \in 1..(i - 1) : CharAt(a, j) # NUL) => CharAt(a, i) = CharAt(b, i)

\* strcmp(a, b) == 0
strcmp0(a, b) == a = b

\* The literals of parse_passphrase_arg and of main().
StrDev == <<"d", "e", "v", ":">>
StrEnv == <<"e", "n", "v", ":">>
StrFile == <<"f", "i", "l", "e", ":">>
StrTtyStdin == <<"t", "t", "y", "-", "s", "t", "d", "i", "n">>
StrStdinOnce == <<"s", "t", "d", "i", "n", "-", "o", "n", "c", "e">>
StrTtyOnce == <<"t", "t", "y", "-", "o", "n", "c", "e">>
StrDash == <<"-">>

\* ------------------------------------------------ the inputs of the model

\* A numeral with value v, and a text that is no numeral.
Num(v) == [num |-> TRUE, val |-> v]
NotANumber == [num |-> FALSE, val |-> 0]

\* argv[1]
Commands == {"enc", "dec", "info", "--version", "frobnicate", "none"}

\* Arguments given to -l, -r, -p, -m (thousandths), -t (seconds).
LArgs == {Num(2), Num(9), Num(12), Num(41), Num(2049), NotANumber}
RArgs == {Num(0), Num(2), Num(128), Num(129)}
PArgs == {Num(0), Num(3), Num(128), Num(129)}
FracArgs == {Num(500), Num(2000)}
TimeArgs == {Num(300), Num(-1)}

\* Arguments given to -M: "4G" and "x".
SizeArgs == {<<"4", "G">>, <<"x">>}

\* Arguments given to --passphrase.
PassArgs ==
    { StrDev \o StrTtyStdin, StrDev \o StrStdinOnce, StrDev \o StrTtyOnce,
      StrEnv \o <<"P", "W">>, StrFile \o <<"k", ":", "1">>,
      StrTtyStdin, StrDev \o <<"t", "t", "y">>, <<"e", "n", "v">>,
      <<"x", ":">> \o StrEnv }

\* What is left of the command line after the options: no name, infile,
\* infile and outfile, or one name too many.
Positionals ==
    { <<>>, <<StrDash>>, <<<<"i", "n">>>>,
      <<StrDash, <<"o", "u", "t">>>>, <<<<"i", "n">>, <<"o", "u", "t">>>>,
      <<<<"i", "n">>, <<"o", "u", "t">>, <<"x">>>> }

\* A null char pointer.
NULL == <<NUL>>

\* ------------------------------------------------- the parsing helpers

\* PARSENUM(&x, s, min, max) is nonzero (failure) when s is no numeral or
\* its value is not in [min, max].
PARSENUM(s, min, max) == ~s.num \/ s.val < min \/ s.val > max

\* PARSENUM with max = INFINITY.
PARSENUM_FROM(s, min) == ~s.num \/ s.val < min

\* humansize_parse(s, &size): [fail, size], the size in MiB.
humansize_parse(s) ==
    IF s = <<"4", "G">> THEN [fail |-> FALSE, size |-> 4096]
    ELSE [fail |-> TRUE, size |-> 0]

\* SIZE_MAX of the build, in MiB: 2^32 - 1 bytes where size_t has 32 bits;
\* where it has 64 bits no uint64_t exceeds it.
Builds == {"ILP32", "LP64"}
SizeMax32 == 4095
ExceedsSizeMax(size, build) == build = "ILP32" /\ size > SizeMax32

\* parse_passphrase_arg taking "dev:" with any argument for dev:tty-stdin.
parse_passphrase_arg_AnyDev(arg, optarg, entry, parg) ==
    LET p == strchr(arg, ":")
        rest == StrFrom(arg, p)
        failure(a) == [ret |-> -1, entry |-> entry, parg |-> a,
                       warn |-> <<[text |-> "Invalid option", opt |-> "--passphrase", arg |-> arg]>>]
        success(e) == [ret |-> 0, entry |-> e, parg |-> rest, warn |-> <<>>]
    IN  IF p = 0 THEN failure(parg)
        ELSE IF strncmp0(arg, StrDev, 4) /\ strcmp0(rest, StrStdinOnce)
            THEN success(PASSPHRASE_STDIN_ONCE)
        ELSE IF strncmp0(arg, StrDev, 4) /\ strcmp0(rest, StrTtyOnce)
            THEN success(PASSPHRASE_TTY_ONCE)
        ELSE IF strncmp0(arg, StrDev, 4) THEN success(PASSPHRASE_TTY_STDIN)
        ELSE IF strncmp0(optarg, StrEnv, 4) THEN success(PASSPHRASE_ENV)
        ELSE IF strncmp0(optarg, StrFile, 5) THEN success(PASSPHRASE_FILE)
        ELSE failure(rest)

\* parse_passphrase_arg(arg, &entry, &parg), reading the global optarg where
\* the source does: [ret, entry, parg, warn] from the values entry and parg
\* had before the call.
parse_passphrase_arg(arg, optarg, entry, parg) ==
    LET p == strchr(arg, ":")
        rest == StrFrom(arg, p)
        failure(a) == [ret |-> -1, entry |-> entry, parg |-> a,
                       warn |-> <<[text |-> "Invalid option", opt |-> "--passphrase", arg |-> arg]>>]
        success(e) == [ret |-> 0, entry |-> e, parg |-> rest, warn |-> <<>>]
    IN  IF p = 0 THEN failure(parg)
        ELSE IF strncmp0(arg, StrDev, 4) /\ strcmp0(rest, StrTtyStdin)
            THEN success(PASSPHRASE_TTY_STDIN)
        ELSE IF strncmp0(arg, StrDev, 4) /\ strcmp0(rest, StrStdinOnce)
            THEN success(PASSPHRASE_STDIN_ONCE)
        ELSE IF strncmp0(arg, StrDev, 4) /\ strcmp0(rest, StrTtyOnce)
            THEN success(PASSPHRASE_TTY_ONCE)
        ELSE IF strncmp0(optarg, StrEnv, 4) THEN success(PASSPHRASE_ENV)
        ELSE IF strncmp0(optarg, StrFile, 5) THEN success(PASSPHRASE_FILE)
        ELSE failure(rest)

\* ------------------------------------------------------- the library

\* The hosts a run may be on: physical and available memory in MiB, scrypt
\* throughput in operations per second.
Hosts ==
    { [phys |-> 64, avail |-> 32, ops |-> 1000],
      [phys |-> 16384, avail |-> 8192, ops |-> 1000000] }

Min(S) == CHOOSE x \in S : \A y \in S : x <= y
Max(S) == CHOOSE x \in S : \A y \in S : x >= y

RECURSIVE Pow2(_)
Pow2(n) == IF n = 0 THEN 1 ELSE 2 * Pow2(n - 1)

\* The memory budget in MiB: the least nonzero of maxmem, maxmemfrac of the
\* physical memory (0 or more than 0.5 counts as 0.5) and the available
\* memory; at least 1 MiB.
memlimit(P, host) ==
    LET frac == IF P.maxmemfrac = 0 \/ P.maxmemfrac > 500 THEN 500 ELSE P.maxmemfrac
        cands == {x \in {P.maxmem, (frac * host.phys) \div 1000, host.avail} : x # 0}
        m == IF cands = {} THEN host.avail ELSE Min(cands)
    IN  IF m < 1 THEN 1 ELSE m

\* The time budget in operations.
opslimit(P, host) == P.maxtime * host.ops

\* 128 * r * 2^logN bytes <= limit MiB, without leaving the integers of the
\* model checker: 2^logN <= (limit * 2^20 / 128) / r.
WorkingSetFits(logN, r, limit) ==
    logN <= 30 /\ Pow2(logN) <= (limit * 8192) \div r

\* 4 * r * p * 2^logN <= limit.
OpsFit(logN, r, p, limit) ==
    logN <= 30 /\ Pow2(logN) <= limit \div (4 * r * p)

Feasible(logN, r, p, P, host) ==
    /\ WorkingSetFits(logN, r, memlimit(P, host))
    /\ OpsFit(logN, r, p, opslimit(P, host))

\* The Tuner's selection: r = 8, p = 1 and the largest feasible logN,
\* clamped into [10, 40].
pickparams(P, host) ==
    LET best == Max({0} \cup {l \in 1..40 : Feasible(l, 8, 1, P, host)})
    IN  [logN |-> IF best < 10 THEN 10 ELSE best, r |-> 8, p |-> 1]

\* The diagnostic of verbose mode.
display_params(logN, r, p) ==
    [text |-> "Parameters used", opt |-> "", arg |-> <<Pow2(logN), r, p>>]

\* What can go wrong inside the library beside the checks modelled below.
EncFaults ==
    {"none", SCRYPT_ELIMIT, SCRYPT_ECLOCK, SCRYPT_EKEY, SCRYPT_ESALT,
     SCRYPT_EOPENSSL, SCRYPT_ENOMEM, SCRYPT_ERDFILE, SCRYPT_EWRFILE}
PrepFaults ==
    {"none", SCRYPT_ELIMIT, SCRYPT_ECLOCK, SCRYPT_EKEY, SCRYPT_ENOMEM, SCRYPT_ERDFILE}
CopyFaults == {"none", SCRYPT_ERDFILE, SCRYPT_EWRFILE}
InfoFaults == {"none", SCRYPT_ERDFILE}

\* The headers the input may start with: is it an scrypt header with a good
\* checksum, its version, its parameters, and whether its HMAC is the one
\* the passphrase gives.
Headers ==
    { [valid |-> FALSE, version |-> 0, logN |-> 0, r |-> 0, p |-> 0, hmac |-> FALSE],
      [valid |-> TRUE, version |-> 1, logN |-> 12, r |-> 2, p |-> 3, hmac |-> TRUE],
      [valid |-> TRUE, version |-> 0, logN |-> 12, r |-> 2, p |-> 3, hmac |-> TRUE],
      [valid |-> TRUE, version |-> 0, logN |-> 12, r |-> 2, p |-> 3, hmac |-> FALSE],
      [valid |-> TRUE, version |-> 0, logN |-> 20, r |-> 128, p |-> 1, hmac |-> TRUE],
      [valid |-> TRUE, version |-> 0, logN |-> 14, r |-> 8, p |-> 4, hmac |-> TRUE] }

\* scryptenc_file(infile, outfile, passwd, passwdlen, &params, verbose) with
\* the force flag it is given: [rc, used, diag].  With an explicit triple the
\* feasibility check fails with EPARAM unless force is set; with none the
\* Tuner chooses.
scryptenc_file(P, verbose, force, host, fault) ==
    LET explicit == P.logN # 0 /\ P.r # 0 /\ P.p # 0
        partial == ~explicit /\ (P.logN # 0 \/ P.r # 0 \/ P.p # 0)
        used == IF explicit THEN [logN |-> P.logN, r |-> P.r, p |-> P.p]
                ELSE pickparams(P, host)
        diag == IF verbose = 1 THEN <<display_params(used.logN, used.r, used.p)>> ELSE <<>>
        none == [logN |-> 0, r |-> 0, p |-> 0]
    IN  IF fault \in {SCRYPT_ELIMIT, SCRYPT_ECLOCK}
            THEN [rc |-> fault, used |-> none, diag |-> <<>>]
        ELSE IF partial
            THEN [rc |-> SCRYPT_EPARAM, used |-> none, diag |-> <<>>]
        ELSE IF explicit /\ ~force /\ ~Feasible(P.logN, P.r, P.p, P, host)
            THEN [rc |-> SCRYPT_EPARAM, used |-> none, diag |-> <<>>]
        ELSE IF fault # "none"
            THEN [rc |-> fault, used |-> used, diag |-> diag]
        ELSE [rc |-> SCRYPT_OK, used |-> used, diag |-> diag]

\* scryptdec_file_prep(infile, passwd, passwdlen, &params, verbose, force,
\* &cookie): [rc, cookie, diag].
scryptdec_file_prep(hdr, P, verbose, force, host, fault) ==
    LET diag == IF verbose = 1 THEN <<display_params(hdr.logN, hdr.r, hdr.p)>> ELSE <<>>
        fail(e, d) == [rc |-> e, cookie |-> "NULL", diag |-> d]
    IN  IF fault = SCRYPT_ERDFILE THEN fail(fault, <<>>)
        ELSE IF ~hdr.valid THEN fail(SCRYPT_EINVAL, <<>>)
        ELSE IF hdr.version # 0 THEN fail(SCRYPT_EVERSION, <<>>)
        ELSE IF fault \in {SCRYPT_ELIMIT, SCRYPT_ECLOCK} THEN fail(fault, <<>>)
        ELSE IF ~force /\ ~WorkingSetFits(hdr.logN, hdr.r, memlimit(P, host))
            THEN fail(SCRYPT_ETOOBIG, diag)
        ELSE IF ~force /\ ~OpsFit(hdr.logN, hdr.r, hdr.p, opslimit(P, host))
            THEN fail(SCRYPT_ETOOSLOW, diag)
        ELSE IF fault # "none" THEN fail(fault, diag)
        ELSE IF ~hdr.hmac THEN fail(SCRYPT_EPASS, diag)
        ELSE [rc |-> SCRYPT_OK, cookie |-> "AwaitingCopy", diag |-> diag]

\* scryptdec_file_copy(cookie, outfile): the result code; bodyOk says whether
\* the body ends with the right final tag.
scryptdec_file_copy(bodyOk, fault) ==
    IF fault # "none" THEN fault
    ELSE IF ~bodyOk THEN SCRYPT_EINVAL
    ELSE SCRYPT_OK

\* scryptdec_file_printparams(infile): [rc, out].
scryptdec_file_printparams(hdr, fault) ==
    IF fault # "none" THEN [rc |-> fault, out |-> <<>>]
    ELSE IF ~hdr.valid THEN [rc |-> SCRYPT_EINVAL, out |-> <<>>]
    ELSE IF hdr.version # 0 THEN [rc |-> SCRYPT_EVERSION, out |-> <<>>]
    ELSE [rc |-> SCRYPT_OK, out |-> <<display_params(hdr.logN, hdr.r, hdr.p)>>]

\* ------------------------------------------------------------ the state

VARIABLES
    pc,                \* the block of main() that runs next
    dec, info,         \* the mode flags
    force_resources, verbose,
    params,            \* struct scryptenc_params
    passphrase_entry, passphrase_arg,
    nopts,             \* how many options GETOPT has returned
    infilename, outfilename,
    infile, outfile,   \* the FILE pointers: "uninit", "NULL", "stdin", "stdout", "file"
    passwd,            \* the passphrase buffer: [mem, bytes]
    C,                 \* the decryption cookie: "NULL", "AwaitingCopy", "Consumed"
    rc,
    stderr,            \* the messages written so far
    exit_status,       \* -1 while the process runs
    obs                \* what the run has done to the world around it

modev == <<dec, info>>
optv == <<force_resources, verbose, params, passphrase_entry, passphrase_arg>>
namev == <<infilename, outfilename>>
filev == <<infile, outfile>>
secv == <<passwd, C, rc>>
vars == <<pc, modev, optv, nopts, namev, filev, secv, stderr, exit_status, obs>>

Msg(text, opt, arg) == [text |-> text, opt |-> opt, arg |-> arg]

\* The text of usage().
UsageMsg == Msg("usage", "", <<>>)

NoTriple == [logN |-> 0, r |-> 0, p |-> 0]

Init ==
    /\ pc = "start"
    /\ dec = 0
    /\ info = 0
    /\ force_resources = 0
    /\ verbose = 0
    /\ params = [maxmem |-> 0, maxmemfrac |-> 500, maxtime |-> 300,
                 logN |-> 0, r |-> 0, p |-> 0]
    /\ passphrase_entry = PASSPHRASE_UNSET
    /\ passphrase_arg = NULL
    /\ nopts = 0
    /\ infilename = NULL
    /\ outfilename = NULL
    /\ infile = "uninit"
    /\ outfile = "stdout"
    /\ passwd = [mem |-> "none", bytes |-> "none"]
    /\ C = "NULL"
    /\ rc = "uninit"
    /\ stderr = <<>>
    /\ exit_status = -1
    /\ obs = [cmd |-> "none",        \* argv[1]
              log |-> <<>>,          \* the steps taken, in order
              given |-> NoTriple,    \* the last numerals given with -l, -r, -p
              fits |-> <<>>,         \* does an explicit triple fit the host's budget
              prepRc |-> "none",     \* what scryptdec_file_prep returned
              passOpts |-> 0,        \* passphrase options met on the command line
              passArg |-> <<>>,      \* the argument parse_passphrase_arg was given
              inOpens |-> 0, inCloses |-> 0,
              outOpens |-> 0, outCloses |-> 0,
              stdCloses |-> 0,       \* fclose of stdin or stdout
              firstBad |-> <<>>,     \* the first out-of-range -l, -r or -p
              passFrom |-> "none",   \* where a passphrase read was started
              dataFrom |-> "none",   \* where the library read its input
              cookieFrees |-> 0,     \* releases of the cookie prep made
              cookieMisuse |-> FALSE,\* an operation on a consumed cookie
              encArgs |-> <<>>,      \* what scryptenc_file was given
              prepArgs |-> <<>>,     \* what scryptdec_file_prep was given
              header |-> <<>>,       \* the parameters of the header written or read
              cleaned |-> FALSE]     \* the cleanup block has run

\* exit(status), and "return (status)" from main().
Exit(status) ==
    /\ pc' = "exit"
    /\ exit_status' = status

\* warn, then exit(1); usage() is this with the usage text last.
Die(msgs) ==
    /\ stderr' = stderr \o msgs
    /\ Exit(1)

\* err0: exit(1).
Err0 == Exit(1)

\* --------------------------------------------------- main(): the command

\* "We should have enc, dec, or info first."
Start ==
    /\ pc = "start"
    /\ \E cmd \in Commands :
        /\ IF cmd = "none"
              THEN Die(<<UsageMsg>>) /\ UNCHANGED <<modev, params>>
           ELSE IF cmd = "enc"
              THEN /\ params' = [params EXCEPT !.maxmem = 0, !.maxmemfrac = 125, !.maxtime = 5]
                   /\ pc' = "getopt"
                   /\ UNCHANGED <<modev, stderr, exit_status>>
           ELSE IF cmd = "dec"
              THEN /\ dec' = 1
                   /\ pc' = "getopt"
                   /\ UNCHANGED <<info, params, stderr, exit_status>>
           ELSE IF cmd = "info"
              THEN /\ info' = 1
                   /\ pc' = "getopt"
                   /\ UNCHANGED <<dec, params, stderr, exit_status>>
           ELSE IF cmd = "--version"
              THEN /\ stderr' = stderr
                   /\ Exit(0)
                   /\ UNCHANGED <<modev, params>>
           ELSE /\ Die(<<Msg("First argument must be 'enc', 'dec', or 'info'.", "", <<>>),
                         UsageMsg>>)
                /\ UNCHANGED <<modev, params>>
        /\ obs' = [obs EXCEPT !.cmd = cmd]
    /\ UNCHANGED <<force_resources, verbose, passphrase_entry, passphrase_arg,
                   nopts, namev, filev, secv>>

\* ------------------------------------------------- main(): the options

\* GETOPT returns one more option.
Getopt ==
    /\ pc = "getopt"
    /\ nopts < MaxArgs
    /\ nopts' = nopts + 1

InvalidOption(ch, optarg) == Msg("Invalid option", ch, <<optarg>>)

\* The first option met whose argument is no integer of [min, max], kept
\* whatever main() goes on to do with it.
NoteRange(ch, field, optarg, min, max) ==
    obs' = [obs EXCEPT !.firstBad =
               IF @ = <<>> /\ ~(optarg.num /\ optarg.val \in min..max)
               THEN <<[opt |-> ch, arg |-> optarg]>> ELSE @,
                       !.given[field] = optarg.val]

OptF ==
    /\ Getopt
    /\ force_resources' = 1
    /\ UNCHANGED <<pc, modev, verbose, params, passphrase_entry, passphrase_arg,
                   namev, filev, secv, stderr, exit_status, obs>>

OptL ==
    /\ Getopt
    /\ \E optarg \in LArgs :
        /\ NoteRange("-l", "logN", optarg, LogNMin, LogNMax)
        /\ IF PARSENUM(optarg, LogNMin, LogNMax)
           THEN Die(<<InvalidOption("-l", optarg)>>) /\ UNCHANGED params
           ELSE /\ params' = [params EXCEPT !.logN = optarg.val]
                /\ UNCHANGED <<pc, stderr, exit_status>>
    /\ UNCHANGED <<modev, force_resources, verbose, passphrase_entry, passphrase_arg,
                   namev, filev, secv>>

\* OptR without its range check.
OptR_Unchecked ==
    /\ Getopt
    /\ \E optarg \in RArgs :
        /\ NoteRange("-r", "r", optarg, RMin, RMax)
        /\ params' = [params EXCEPT !.r = optarg.val]
        /\ UNCHANGED <<pc, stderr, exit_status>>
    /\ UNCHANGED <<modev, force_resources, verbose, passphrase_entry, passphrase_arg,
                   namev, filev, secv>>

OptR ==
    /\ Getopt
    /\ \E optarg \in RArgs :
        /\ NoteRange("-r", "r", optarg, RMin, RMax)
        /\ IF PARSENUM(optarg, RMin, RMax)
           THEN Die(<<InvalidOption("-r", optarg)>>) /\ UNCHANGED params
           ELSE /\ params' = [params EXCEPT !.r = optarg.val]
                /\ UNCHANGED <<pc, stderr, exit_status>>
    /\ UNCHANGED <<modev, force_resources, verbose, passphrase_entry, passphrase_arg,
                   namev, filev, secv>>

\* OptP storing its value in params.r.
OptP_IntoR ==
    /\ Getopt
    /\ \E optarg \in PArgs :
        /\ NoteRange("-p", "p", optarg, PMin, PMax)
        /\ IF PARSENUM(optarg, PMin, PMax)
           THEN Die(<<InvalidOption("-p", optarg)>>) /\ UNCHANGED params
           ELSE /\ params' = [params EXCEPT !.r = optarg.val]
                /\ UNCHANGED <<pc, stderr, exit_status>>
    /\ UNCHANGED <<modev, force_resources, verbose, passphrase_entry, passphrase_arg,
                   namev, filev, secv>>

OptP ==
    /\ Getopt
    /\ \E optarg \in PArgs :
        /\ NoteRange("-p", "p", optarg, PMin, PMax)
        /\ IF PARSENUM(optarg, PMin, PMax)
           THEN Die(<<InvalidOption("-p", optarg)>>) /\ UNCHANGED params
           ELSE /\ params' = [params EXCEPT !.p = optarg.val]
                /\ UNCHANGED <<pc, stderr, exit_status>>
    /\ UNCHANGED <<modev, force_resources, verbose, passphrase_entry, passphrase_arg,
                   namev, filev, secv>>

OptM ==
    /\ Getopt
    /\ \E optarg \in SizeArgs, build \in Builds :
        LET h == humansize_parse(optarg)
        IN  IF h.fail
            THEN Die(<<Msg("Could not parse the parameter to -M.", "", <<>>)>>)
                 /\ UNCHANGED params
            ELSE IF ExceedsSizeMax(h.size, build)
            THEN Die(<<Msg("The parameter to -M is too large.", "", <<>>)>>)
                 /\ UNCHANGED params
            ELSE /\ params' = [params EXCEPT !.maxmem = h.size]
                 /\ UNCHANGED <<pc, stderr, exit_status>>
    /\ UNCHANGED <<modev, force_resources, verbose, passphrase_entry, passphrase_arg,
                   namev, filev, secv, obs>>

OptMemFrac ==
    /\ Getopt
    /\ \E optarg \in FracArgs :
        IF PARSENUM(optarg, MemFracMin, MemFracMax)
        THEN Die(<<InvalidOption("-m", optarg)>>) /\ UNCHANGED params
        ELSE /\ params' = [params EXCEPT !.maxmemfrac = optarg.val]
             /\ UNCHANGED <<pc, stderr, exit_status>>
    /\ UNCHANGED <<modev, force_resources, verbose, passphrase_entry, passphrase_arg,
                   namev, filev, secv, obs>>

OnlyOnePassphrase ==
    Msg("You can only enter one --passphrase or -P argument", "", <<>>)

OptPassphrase ==
    /\ Getopt
    /\ \E optarg \in PassArgs :
        IF passphrase_entry # PASSPHRASE_UNSET
        THEN Die(<<OnlyOnePassphrase>>)
             /\ obs' = [obs EXCEPT !.passOpts = @ + 1]
             /\ UNCHANGED <<passphrase_entry, passphrase_arg>>
        ELSE LET res == parse_passphrase_arg(optarg, optarg, passphrase_entry,
                                             passphrase_arg)
             IN  /\ obs' = [obs EXCEPT !.passOpts = @ + 1, !.passArg = <<optarg>>]
                 /\ passphrase_entry' = res.entry
                 /\ passphrase_arg' = res.parg
                 /\ IF res.ret # 0
                    THEN Die(res.warn)
                    ELSE UNCHANGED <<pc, stderr, exit_status>>
    /\ UNCHANGED <<modev, force_resources, verbose, params, namev, filev, secv>>

OptT ==
    /\ Getopt
    /\ \E optarg \in TimeArgs :
        IF PARSENUM_FROM(optarg, MaxTimeMin)
        THEN Die(<<InvalidOption("-t", optarg)>>) /\ UNCHANGED params
        ELSE /\ params' = [params EXCEPT !.maxtime = optarg.val]
             /\ UNCHANGED <<pc, stderr, exit_status>>
    /\ UNCHANGED <<modev, force_resources, verbose, passphrase_entry, passphrase_arg,
                   namev, filev, secv, obs>>

OptV ==
    /\ Getopt
    /\ verbose' = 1
    /\ UNCHANGED <<pc, modev, force_resources, params, passphrase_entry, passphrase_arg,
                   namev, filev, secv, stderr, exit_status, obs>>

\* OptBigP without the test for an earlier passphrase option.
OptBigP_Unchecked ==
    /\ Getopt
    /\ obs' = [obs EXCEPT !.passOpts = @ + 1]
    /\ passphrase_entry' = PASSPHRASE_STDIN_ONCE
    /\ UNCHANGED <<pc, stderr, exit_status>>
    /\ UNCHANGED <<modev, force_resources, verbose, params, passphrase_arg,
                   namev, filev, secv>>

OptBigP ==
    /\ Getopt
    /\ obs' = [obs EXCEPT !.passOpts = @ + 1]
    /\ IF passphrase_entry # PASSPHRASE_UNSET
       THEN Die(<<OnlyOnePassphrase>>) /\ UNCHANGED passphrase_entry
       ELSE /\ passphrase_entry' = PASSPHRASE_STDIN_ONCE
            /\ UNCHANGED <<pc, stderr, exit_status>>
    /\ UNCHANGED <<modev, force_resources, verbose, params, passphrase_arg,
                   namev, filev, secv>>

\* GETOPT_MISSING_ARG: an option that takes an argument came last.
OptMissingArg ==
    /\ Getopt
    /\ \E ch \in {"-l", "-r", "-p", "-M", "-m", "-t", "--passphrase"} :
        Die(<<Msg("Missing argument to", ch, <<>>), UsageMsg>>)
    /\ UNCHANGED <<modev, optv, namev, filev, secv, obs>>

\* GETOPT_DEFAULT: an option main() does not know.
OptIllegal ==
    /\ Getopt
    /\ Die(<<Msg("illegal option --", "-x", <<>>), UsageMsg>>)
    /\ UNCHANGED <<modev, optv, namev, filev, secv, obs>>

\* ---------------------------------------- main(): the names and the files

\* "We must have one or two parameters left", the file names and the
\* default passphrase entry method.
Positional ==
    /\ pc = "getopt"
    /\ \E argv \in Positionals :
        LET argc == Len(argv)
        IN  IF argc < 1 \/ argc > 2
            THEN /\ Die(<<UsageMsg>>)
                 /\ UNCHANGED <<namev, passphrase_entry>>
            ELSE /\ infilename' = IF ~strcmp0(argv[1], StrDash) THEN argv[1] ELSE NULL
                 /\ outfilename' = IF argc > 1 THEN argv[2] ELSE NULL
                 /\ passphrase_entry' =
                        IF passphrase_entry = PASSPHRASE_UNSET
                        THEN PASSPHRASE_TTY_STDIN ELSE passphrase_entry
                 /\ pc' = "openin"
                 /\ UNCHANGED <<stderr, exit_status>>
    /\ nopts' = 0    \* argc -= optind; argv += optind
    /\ UNCHANGED <<modev, force_resources, verbose, params, passphrase_arg,
                   filev, secv, obs>>

\* obs with one more step in its log.
Logged(o, step) == [o EXCEPT !.log = Append(@, step)]

\* OpenInput going on to the passphrase in info mode too.
OpenInput_IgnoresInfo ==
    /\ pc = "openin"
    /\ IF infilename # NULL
       THEN \E opened \in BOOLEAN :
            IF opened
            THEN /\ infile' = "file"
                 /\ obs' = Logged([obs EXCEPT !.inOpens = @ + 1], "open_in")
                 /\ pc' = "getpass"
                 /\ UNCHANGED <<stderr, exit_status>>
            ELSE /\ infile' = "NULL"
                 /\ stderr' = Append(stderr, Msg("Cannot open input file", "", infilename))
                 /\ Err0
                 /\ UNCHANGED obs
       ELSE /\ infile' = "stdin"
            /\ UNCHANGED obs
            /\ IF passphrase_entry = PASSPHRASE_STDIN_ONCE
               THEN /\ stderr' = Append(stderr,
                         Msg("Cannot read both passphrase and input file from standard input",
                             "", <<>>))
                    /\ Err0
               ELSE /\ pc' = "getpass"
                    /\ UNCHANGED <<stderr, exit_status>>
    /\ UNCHANGED <<modev, optv, nopts, namev, outfile, secv>>

\* "If the input isn't stdin, open the file."
OpenInput ==
    /\ pc = "openin"
    /\ IF infilename # NULL
       THEN \E opened \in BOOLEAN :
            IF opened
            THEN /\ infile' = "file"
                 /\ obs' = Logged([obs EXCEPT !.inOpens = @ + 1], "open_in")
                 /\ pc' = IF info = 1 THEN "info" ELSE "getpass"
                 /\ UNCHANGED <<stderr, exit_status>>
            ELSE /\ infile' = "NULL"
                 /\ stderr' = Append(stderr, Msg("Cannot open input file", "", infilename))
                 /\ Err0
                 /\ UNCHANGED obs
       ELSE /\ infile' = "stdin"
            /\ UNCHANGED obs
            /\ IF passphrase_entry = PASSPHRASE_STDIN_ONCE
               THEN /\ stderr' = Append(stderr,
                         Msg("Cannot read both passphrase and input file from standard input",
                             "", <<>>))
                    /\ Err0
               ELSE /\ pc' = IF info = 1 THEN "info" ELSE "getpass"
                    /\ UNCHANGED <<stderr, exit_status>>
    /\ UNCHANGED <<modev, optv, nopts, namev, outfile, secv>>

\* fclose(f): the obs after it.  Closing a file the program opened counts in
\* field, closing a standard stream in stdCloses.
fclose(o, f, field) ==
    IF f \in {"stdin", "stdout"} THEN [o EXCEPT !.stdCloses = @ + 1]
    ELSE [o EXCEPT ![field] = @ + 1]

\* "if (f != std) fclose(f);": the obs after it.
CloseUnlessStd(o, f, std, field) ==
    IF f # std THEN fclose(o, f, field) ELSE o

\* Where the library reads the input from.
DataFrom == IF infile = "stdin" THEN "stdin" ELSE "file"

\* "User selected 'info' mode."
Info ==
    /\ pc = "info"
    /\ \E hdr \in Headers, fault \in InfoFaults :
        LET res == scryptdec_file_printparams(hdr, fault)
        IN  /\ rc' = res.rc
            /\ stderr' = stderr \o res.out
    /\ obs' = CloseUnlessStd(Logged([obs EXCEPT !.dataFrom = DataFrom], "printparams"),
                             infile, "stdin", "inCloses")
    /\ pc' = "done"
    /\ UNCHANGED <<modev, optv, nopts, namev, filev, passwd, C, exit_status>>

\* ------------------------------------------------ main(): the passphrase

\* readpass(&passwd, prompt, confirmprompt, devtty): devtty 1 reads from the
\* terminal when there is one and else from standard input, 0 from standard
\* input, 2 from the terminal only.  [from, ok]: where the read starts
\* ("none": nowhere) and whether a passphrase can come back.
readpass(devtty, tty) ==
    IF devtty = 1 THEN [from |-> IF tty THEN "tty" ELSE "stdin", ok |-> TRUE]
    ELSE IF devtty = 0 THEN [from |-> "stdin", ok |-> TRUE]
    ELSE IF tty THEN [from |-> "tty", ok |-> TRUE]
    ELSE [from |-> "none", ok |-> FALSE]

\* The devtty argument main() gives readpass for each entry method.
DevTty(entry) ==
    IF entry = PASSPHRASE_TTY_STDIN THEN 1
    ELSE IF entry = PASSPHRASE_STDIN_ONCE THEN 0
    ELSE 2

\* GetPassword going on to prep without a passphrase.
GetPassword_FailureGoesOn ==
    /\ pc = "getpass"
    /\ \E tty \in BOOLEAN, outcome \in {"ok", "fail", "nomem"} :
        LET viaReadpass == passphrase_entry \in
                {PASSPHRASE_TTY_STDIN, PASSPHRASE_STDIN_ONCE, PASSPHRASE_TTY_ONCE}
            rp == readpass(DevTty(passphrase_entry), tty)
            from == IF viaReadpass THEN rp.from
                    ELSE IF passphrase_entry = PASSPHRASE_ENV THEN "env"
                    ELSE IF passphrase_entry = PASSPHRASE_FILE THEN "file"
                    ELSE "none"
            ok == /\ outcome = "ok"
                  /\ viaReadpass => rp.ok
                  /\ passphrase_entry # PASSPHRASE_UNSET
        IN  /\ obs' = Logged([obs EXCEPT !.passFrom = from],
                              IF ok THEN "getpass" ELSE "getpass_failed")
            /\ passwd' = IF ok THEN [mem |-> "live", bytes |-> "secret"] ELSE passwd
            /\ pc' = "prep"
    /\ UNCHANGED <<modev, optv, nopts, namev, filev, C, rc, stderr, exit_status>>

\* "Get the password."
GetPassword ==
    /\ pc = "getpass"
    /\ \E tty \in BOOLEAN, outcome \in {"ok", "fail", "nomem"} :
        LET viaReadpass == passphrase_entry \in
                {PASSPHRASE_TTY_STDIN, PASSPHRASE_STDIN_ONCE, PASSPHRASE_TTY_ONCE}
            rp == readpass(DevTty(passphrase_entry), tty)
            from == IF viaReadpass THEN rp.from
                    ELSE IF passphrase_entry = PASSPHRASE_ENV THEN "env"
                    ELSE IF passphrase_entry = PASSPHRASE_FILE THEN "file"
                    ELSE "none"
            ok == /\ outcome = "ok"
                  /\ viaReadpass => rp.ok
                  /\ passphrase_entry # PASSPHRASE_UNSET
            warn == IF passphrase_entry = PASSPHRASE_ENV /\ outcome = "fail"
                        THEN <<Msg("Failed to read from ${}", "", passphrase_arg)>>
                    ELSE IF passphrase_entry = PASSPHRASE_ENV /\ outcome = "nomem"
                        THEN <<Msg("Out of memory", "", <<>>)>>
                    ELSE IF passphrase_entry = PASSPHRASE_UNSET
                        THEN <<Msg("Programming error: passphrase_entry is not set", "", <<>>)>>
                    ELSE <<>>
        IN  /\ obs' = Logged([obs EXCEPT !.passFrom = from],
                              IF ok THEN "getpass" ELSE "getpass_failed")
            /\ stderr' = stderr \o warn
            /\ IF ok
               THEN /\ passwd' = [mem |-> "live", bytes |-> "secret"]
                    /\ pc' = "prep"
               ELSE /\ UNCHANGED passwd
                    /\ pc' = "err1"
    /\ UNCHANGED <<modev, optv, nopts, namev, filev, C, rc, exit_status>>

\* -------------------------------------------- main(): decrypt and encrypt

\* The triple of params and the force flag a library call is given.
CallArgs(P, force) == [logN |-> P.logN, r |-> P.r, p |-> P.p, force |-> force]

\* Prep going on to the output file whatever prep returned.
Prep_IgnoresFailure ==
    /\ pc = "prep"
    /\ IF dec = 1
       THEN \E hdr \in Headers, host \in Hosts, fault \in PrepFaults :
            LET res == scryptdec_file_prep(hdr, params, verbose, force_resources = 1,
                                           host, fault)
            IN  /\ rc' = res.rc
                /\ C' = res.cookie
                /\ stderr' = stderr \o res.diag
                /\ obs' = Logged([obs EXCEPT
                                !.dataFrom = DataFrom,
                                !.prepRc = res.rc,
                                !.header = IF hdr.valid /\ hdr.version = 0
                                           THEN <<[logN |-> hdr.logN, r |-> hdr.r, p |-> hdr.p]>>
                                           ELSE <<>>,
                                !.prepArgs = <<CallArgs(params, force_resources = 1)>>],
                              "prep")
                /\ pc' = "openout"
       ELSE /\ pc' = "openout"
            /\ UNCHANGED <<rc, C, stderr, obs>>
    /\ UNCHANGED <<modev, optv, nopts, namev, filev, passwd, exit_status>>

\* "If we're decrypting, open the input file and process its header."
Prep ==
    /\ pc = "prep"
    /\ IF dec = 1
       THEN \E hdr \in Headers, host \in Hosts, fault \in PrepFaults :
            LET res == scryptdec_file_prep(hdr, params, verbose, force_resources = 1,
                                           host, fault)
            IN  /\ rc' = res.rc
                /\ C' = res.cookie
                /\ stderr' = stderr \o res.diag
                /\ obs' = Logged([obs EXCEPT
                                !.dataFrom = DataFrom,
                                !.prepRc = res.rc,
                                !.header = IF hdr.valid /\ hdr.version = 0
                                           THEN <<[logN |-> hdr.logN, r |-> hdr.r, p |-> hdr.p]>>
                                           ELSE <<>>,
                                !.prepArgs = <<CallArgs(params, force_resources = 1)>>],
                              "prep")
                /\ pc' = IF res.rc # SCRYPT_OK THEN "cleanup" ELSE "openout"
       ELSE /\ pc' = "openout"
            /\ UNCHANGED <<rc, C, stderr, obs>>
    /\ UNCHANGED <<modev, optv, nopts, namev, filev, passwd, exit_status>>

\* "If we have an output file, open it."
OpenOutput ==
    /\ pc = "openout"
    /\ IF outfilename # NULL
       THEN \E opened \in BOOLEAN :
            IF opened
            THEN /\ outfile' = "file"
                 /\ obs' = Logged([obs EXCEPT !.outOpens = @ + 1], "open_out")
                 /\ pc' = "crypt"
                 /\ UNCHANGED stderr
            ELSE /\ outfile' = "NULL"
                 /\ stderr' = Append(stderr, Msg("Cannot open output file", "", outfilename))
                 /\ pc' = "err2"
                 /\ UNCHANGED obs
       ELSE /\ pc' = "crypt"
            /\ UNCHANGED <<outfile, stderr, obs>>
    /\ UNCHANGED <<modev, optv, nopts, namev, infile, secv, exit_status>>

\* The force flag scryptenc_file works with: the call gives it infile,
\* outfile, passwd, its length, &params and verbose, and no force flag.
EncForce == FALSE

\* scryptdec_file_copy consumes the cookie and frees it; any operation on a
\* cookie that is consumed already is a misuse: a programming error that is
\* no failure the user sees, so the run goes on.  [C, obs] after a release.
ReleaseCookie(c, o) ==
    IF c = "NULL" THEN [C |-> c, obs |-> o]
    ELSE [C |-> "Consumed",
          obs |-> [o EXCEPT !.cookieFrees = @ + 1,
                            !.cookieMisuse = @ \/ c = "Consumed"]]

\* scryptdec_file_cookie_free(C)
scryptdec_file_cookie_free(c, o) == ReleaseCookie(c, o)

\* "Encrypt or decrypt."
Crypt ==
    /\ pc = "crypt"
    /\ IF dec = 1
       THEN \E bodyOk \in BOOLEAN, fault \in CopyFaults :
            LET rel == ReleaseCookie(C, obs)
            IN  /\ rc' = scryptdec_file_copy(bodyOk, fault)
                /\ C' = rel.C
                /\ obs' = Logged(rel.obs, "copy")
                /\ UNCHANGED stderr
       ELSE \E host \in Hosts, fault \in EncFaults :
            LET res == scryptenc_file(params, verbose, EncForce, host, fault)
            IN  /\ rc' = res.rc
                /\ stderr' = stderr \o res.diag
                /\ obs' = Logged([obs EXCEPT
                                !.dataFrom = DataFrom,
                                !.encArgs = <<CallArgs(params, EncForce)>>,
                                !.fits = IF params.logN # 0 /\ params.r # 0 /\ params.p # 0
                                         THEN <<Feasible(params.logN, params.r, params.p,
                                                         params, host)>>
                                         ELSE <<>>,
                                !.header = IF res.rc = SCRYPT_OK THEN <<res.used>> ELSE <<>>],
                              "enc")
                /\ UNCHANGED C
    /\ pc' = "cleanup"
    /\ UNCHANGED <<modev, optv, nopts, namev, filev, passwd, exit_status>>

\* ------------------------------------------------- main(): the way out

\* insecure_memzero(passwd, strlen(passwd))
insecure_memzero(pw) == [pw EXCEPT !.bytes = IF pw.mem = "live" THEN "zero" ELSE @]

\* free(passwd): the storage is released with the bytes it holds.
free(pw) == [pw EXCEPT !.mem = "freed"]

\* cleanup: free the cookie, zero and free the password, close the files.
Cleanup ==
    /\ pc = "cleanup"
    /\ LET rel == scryptdec_file_cookie_free(C, obs)
           o1 == CloseUnlessStd(rel.obs, infile, "stdin", "inCloses")
           o2 == CloseUnlessStd(o1, outfile, "stdout", "outCloses")
       IN  /\ C' = rel.C
           /\ obs' = [o2 EXCEPT !.cleaned = TRUE]
    /\ passwd' = free(insecure_memzero(passwd))
    /\ pc' = "done"
    /\ UNCHANGED <<modev, optv, nopts, namev, filev, rc, stderr, exit_status>>

\* ErrorMessage reporting a wrong passphrase as an invalid input.
ErrorMessage_PassAsInval(code) ==
    CASE code = SCRYPT_ELIMIT -> <<Msg("Error determining amount of available memory", "", <<>>)>>
      [] code = SCRYPT_ECLOCK -> <<Msg("Error reading clocks", "", <<>>)>>
      [] code = SCRYPT_EKEY -> <<Msg("Error computing derived key", "", <<>>)>>
      [] code = SCRYPT_ESALT -> <<Msg("Error reading salt", "", <<>>)>>
      [] code = SCRYPT_EOPENSSL -> <<Msg("OpenSSL error", "", <<>>)>>
      [] code = SCRYPT_ENOMEM -> <<Msg("Error allocating memory", "", <<>>)>>
      [] code \in {SCRYPT_EINVAL, SCRYPT_EPASS} ->
            <<Msg("Input is not valid scrypt-encrypted block", "", <<>>)>>
      [] code = SCRYPT_EVERSION -> <<Msg("Unrecognized scrypt format version", "", <<>>)>>
      [] code = SCRYPT_ETOOBIG -> <<Msg("Decrypting file would require too much memory", "", <<>>)>>
      [] code = SCRYPT_ETOOSLOW -> <<Msg("Decrypting file would take too much CPU time", "", <<>>)>>
      [] code = SCRYPT_EWRFILE ->
            <<Msg("Error writing file", "",
                  IF outfilename # NULL THEN outfilename
                  ELSE <<"standard output">>)>>
      [] code = SCRYPT_ERDFILE ->
            <<Msg("Error reading file", "",
                  IF infilename # NULL THEN infilename
                  ELSE <<"standard input">>)>>
      [] code = SCRYPT_EPARAM -> <<Msg("Error in the manually specified parameters", "", <<>>)>>
      [] OTHER -> <<>>

\* The switch of "done": the diagnostic of a result code.
ErrorMessage(code) ==
    CASE code = SCRYPT_ELIMIT -> <<Msg("Error determining amount of available memory", "", <<>>)>>
      [] code = SCRYPT_ECLOCK -> <<Msg("Error reading clocks", "", <<>>)>>
      [] code = SCRYPT_EKEY -> <<Msg("Error computing derived key", "", <<>>)>>
      [] code = SCRYPT_ESALT -> <<Msg("Error reading salt", "", <<>>)>>
      [] code = SCRYPT_EOPENSSL -> <<Msg("OpenSSL error", "", <<>>)>>
      [] code = SCRYPT_ENOMEM -> <<Msg("Error allocating memory", "", <<>>)>>
      [] code = SCRYPT_EINVAL -> <<Msg("Input is not valid scrypt-encrypted block", "", <<>>)>>
      [] code = SCRYPT_EVERSION -> <<Msg("Unrecognized scrypt format version", "", <<>>)>>
      [] code = SCRYPT_ETOOBIG -> <<Msg("Decrypting file would require too much memory", "", <<>>)>>
      [] code = SCRYPT_ETOOSLOW -> <<Msg("Decrypting file would take too much CPU time", "", <<>>)>>
      [] code = SCRYPT_EPASS -> <<Msg("Passphrase is incorrect", "", <<>>)>>
      [] code = SCRYPT_EWRFILE ->
            <<Msg("Error writing file", "",
                  IF outfilename # NULL THEN outfilename
                  ELSE <<"standard output">>)>>
      [] code = SCRYPT_ERDFILE ->
            <<Msg("Error reading file", "",
                  IF infilename # NULL THEN infilename
                  ELSE <<"standard input">>)>>
      [] code = SCRYPT_EPARAM -> <<Msg("Error in the manually specified parameters", "", <<>>)>>
      [] OTHER -> <<>>

\* Done returning 0 whatever rc is.
Done_ReturnsZero ==
    /\ pc = "done"
    /\ stderr' = IF rc # SCRYPT_OK THEN stderr \o ErrorMessage(rc) ELSE stderr
    /\ Exit(0)
    /\ UNCHANGED <<modev, optv, nopts, namev, filev, secv, obs>>

\* done: "If we failed, print the right error message and exit."
Done ==
    /\ pc = "done"
    /\ IF rc # SCRYPT_OK
       THEN /\ stderr' = stderr \o ErrorMessage(rc)
            /\ Err0
       ELSE /\ Exit(0)
            /\ UNCHANGED stderr
    /\ UNCHANGED <<modev, optv, nopts, namev, filev, secv, obs>>

\* Err2 freeing the password without zeroing it.
Err2_NoZero ==
    /\ pc = "err2"
    /\ LET rel == scryptdec_file_cookie_free(C, obs)
       IN  /\ C' = rel.C
           /\ obs' = CloseUnlessStd(rel.obs, infile, "stdin", "inCloses")
    /\ passwd' = free(passwd)
    /\ Err0
    /\ UNCHANGED <<modev, optv, nopts, namev, filev, rc, stderr>>

\* err2: free the cookie, zero and free the password; then err1 and err0.
Err2 ==
    /\ pc = "err2"
    /\ LET rel == scryptdec_file_cookie_free(C, obs)
       IN  /\ C' = rel.C
           /\ obs' = CloseUnlessStd(rel.obs, infile, "stdin", "inCloses")
    /\ passwd' = free(insecure_memzero(passwd))
    /\ Err0
    /\ UNCHANGED <<modev, optv, nopts, namev, filev, rc, stderr>>

\* Err1 leaving the input file open.
Err1_NoClose ==
    /\ pc = "err1"
    /\ Err0
    /\ UNCHANGED <<modev, optv, nopts, namev, filev, secv, stderr, obs>>

\* err1: close the input file; then err0.
Err1 ==
    /\ pc = "err1"
    /\ obs' = CloseUnlessStd(obs, infile, "stdin", "inCloses")
    /\ Err0
    /\ UNCHANGED <<modev, optv, nopts, namev, filev, secv, stderr>>

Next ==
    \/ Start
    \/ OptF \/ OptL \/ OptR \/ OptP \/ OptM \/ OptMemFrac \/ OptPassphrase
    \/ OptT \/ OptV \/ OptBigP \/ OptMissingArg \/ OptIllegal
    \/ Positional
    \/ OpenInput
    \/ Info
    \/ GetPassword
    \/ Prep
    \/ OpenOutput
    \/ Crypt
    \/ Cleanup
    \/ Done
    \/ Err2
    \/ Err1

Spec == Init /\ [][Next]_vars

\* ------------------------------------------------------------ the claims

Exited == pc = "exit"
EncMode == obs.cmd = "enc"
Said(text) == \E i \in DOMAIN stderr : stderr[i].text = text
Did(step) == \E i \in DOMAIN obs.log : obs.log[i] = step
ExplicitTriple == params.logN # 0 /\ params.r # 0 /\ params.p # 0
EncCalled == EncMode /\ obs.encArgs # <<>>

\* C1: in enc mode with an explicit triple that exceeds the budget, without
\* -f the encryption fails with EPARAM and the exit status is 1 (a failure
\* of the memory or clock probe comes first); with -f the force flag reaches
\* the encryption operation and the feasibility checks do not fail.
C1_ForceBypassesEncryptChecks ==
    (EncCalled /\ ExplicitTriple /\ obs.fits = <<FALSE>>) =>
        IF force_resources = 1
        THEN /\ rc # SCRYPT_EPARAM
             /\ Exited => obs.encArgs[1].force
             /\ (Exited /\ rc = SCRYPT_OK) => exit_status = 0
        ELSE /\ rc \in {SCRYPT_EPARAM, SCRYPT_ELIMIT, SCRYPT_ECLOCK}
             /\ Exited => exit_status = 1

\* C2: a logN given with -l is accepted only if it is in [10, 40]: every
\* other value ends the run with "Invalid option: -l" and exit status 1, and
\* no logN outside [10, 40] reaches the encrypt or the decrypt-prep call.
C2_LogNWithin10And40 ==
    /\ obs.given.logN \notin 10..40 /\ obs.given.logN # 0 =>
          Exited /\ exit_status = 1 /\ Said("Invalid option")
    /\ \A a \in {obs.encArgs, obs.prepArgs} :
          a # <<>> => a[1].logN = 0 \/ a[1].logN \in 10..40

\* C3: the options are checked in the order of the command line: -r and -p
\* take only integers of [1, 128] and -l only integers of the range its
\* check enforces; the first value out of range ends the run at once with
\* exit status 1 and the one message "Invalid option: <flag> <value>" naming
\* that option, before the input file is opened, a passphrase read or an
\* output file created.
C3_FirstInvalidOptionEndsRun ==
    /\ params.r \in {0} \cup 1..128
    /\ params.p \in {0} \cup 1..128
    /\ obs.firstBad # <<>> =>
          /\ Exited /\ exit_status = 1
          /\ Len(stderr) = 1
          /\ stderr[1].text = "Invalid option"
          /\ stderr[1].opt = obs.firstBad[1].opt
          /\ stderr[1].arg = <<obs.firstBad[1].arg>>
          /\ obs.log = <<>>
          /\ infile = "uninit" /\ outfile = "stdout"
          /\ obs.inOpens = 0 /\ obs.outOpens = 0 /\ obs.passFrom = "none"

\* C3's case: "-l 12 -r 0": -l 12 was taken, then -r 0 ended the run.
C3_Witness ==
    /\ Exited
    /\ params.logN = 12
    /\ obs.firstBad = <<[opt |-> "-r", arg |-> Num(0)]>>

\* C4: in enc mode with a valid explicit triple (L, R, P) that fits the
\* budget, the encryption operation is given (L, R, P) unchanged and does
\* not fail with EPARAM; when it returns SCRYPT_OK the header holds
\* (L, R, P), info on that header reports N = 2^L, r = R, p = P, with -v the
\* diagnostics report the same, and the exit status is 0.
C4_ExplicitTripleUsedUnchanged ==
    (EncCalled /\ obs.given.logN # 0 /\ obs.given.r # 0 /\ obs.given.p # 0) =>
        LET a == obs.encArgs[1]
            g == obs.given
            shown == Msg("Parameters used", "", <<Pow2(g.logN), g.r, g.p>>)
        IN  /\ <<a.logN, a.r, a.p>> = <<g.logN, g.r, g.p>>
            /\ obs.fits # <<>>
            /\ obs.fits = <<TRUE>> => rc # SCRYPT_EPARAM
            /\ (obs.fits = <<TRUE>> /\ rc = SCRYPT_OK) =>
                  /\ obs.header = <<g>>
                  /\ scryptdec_file_printparams(
                        [valid |-> TRUE, version |-> 0, logN |-> obs.header[1].logN,
                         r |-> obs.header[1].r, p |-> obs.header[1].p, hmac |-> TRUE],
                        "none") = [rc |-> SCRYPT_OK, out |-> <<shown>>]
                  /\ verbose = 1 => stderr = <<shown>>
                  /\ Exited => exit_status = 0

\* C4's case: "enc -v -l 12 -r 2 -p 3" has ended with N = 4096, r = 2, p = 3.
C4_Witness ==
    /\ Exited /\ exit_status = 0
    /\ EncCalled
    /\ obs.given = [logN |-> 12, r |-> 2, p |-> 3]
    /\ stderr = <<Msg("Parameters used", "", <<4096, 2, 3>>)>>

\* C5: in dec mode the output file is opened only after prep has returned
\* success: when prep fails the output file is never opened and the exit
\* status is 1.
C5_OutputOpenedOnlyAfterPrep ==
    obs.cmd = "dec" =>
        /\ (obs.outOpens > 0 \/ outfile # "stdout" \/ Did("open_out")) =>
              obs.prepRc = SCRYPT_OK
        /\ (Exited /\ obs.prepRc \notin {"none", SCRYPT_OK}) => exit_status = 1

\* C5's case: a dec run with an output file name has ended after prep failed.
C5_Witness ==
    /\ Exited
    /\ obs.cmd = "dec"
    /\ outfilename # NULL
    /\ obs.prepRc = SCRYPT_EPASS

\* C6: a cookie that prep produced is released exactly once on every path
\* of a dec run, by copy or by an explicit free, never by both and never by
\* neither, and no operation is applied to a consumed cookie.
C6_CookieReleasedExactlyOnce ==
    /\ ~obs.cookieMisuse
    /\ obs.cookieFrees <= 1
    /\ (Exited /\ obs.prepRc = SCRYPT_OK) => obs.cookieFrees = 1

\* C7: when the command line holds more than one passphrase option (-P or
\* --passphrase, in any order), the run ends on reaching the second with
\* exit status 1 and "You can only enter one --passphrase or -P argument";
\* with none or one that message is never printed.
C7_OnePassphraseOption ==
    /\ obs.passOpts >= 2 =>
          /\ Exited /\ exit_status = 1
          /\ Len(stderr) = 1
          /\ stderr[1] = OnlyOnePassphrase
          /\ obs.passOpts = 2
    /\ obs.passOpts <= 1 => ~Said(OnlyOnePassphrase.text)

\* C7's case: a second passphrase option was met.
C7_Witness == Exited /\ obs.passOpts = 2

\* C8: whenever infile is "-" and the passphrase method would read the
\* passphrase from standard input, the run is rejected with exit status 1
\* before a passphrase is read or an output file created: no run reads both
\* the passphrase and the input from standard input.
C8_NeverBothFromStdin ==
    /\ ~(infile = "stdin" /\ obs.passFrom = "stdin" /\ Did("getpass"))
    /\ ~(obs.dataFrom = "stdin" /\ obs.passFrom = "stdin")

\* The final operation of the mode has run.
OperationCalled ==
    \/ obs.cmd = "enc" /\ Did("enc")
    \/ obs.cmd = "dec" /\ Did("prep") /\ obs.prepRc = SCRYPT_OK /\ Did("copy")
    \/ obs.cmd = "info" /\ Did("printparams")

\* C9: the exit status of an enc, dec or info run is 0 if and only if the
\* operation of the mode was reached and returned SCRYPT_OK; every failure
\* (an invalid option, a file that cannot be opened, no passphrase, a
\* nonzero result code) ends the run with exit status 1.
C9_ExitStatus ==
    (Exited /\ obs.cmd \in {"enc", "dec", "info"}) =>
        /\ exit_status \in {0, 1}
        /\ exit_status = 0 <=> (OperationCalled /\ rc = SCRYPT_OK)
        /\ exit_status = 0 =>
              /\ obs.firstBad = <<>>
              /\ ~Did("getpass_failed")
              /\ infile # "NULL" /\ outfile # "NULL"
              /\ \A i \in DOMAIN stderr : stderr[i].text = "Parameters used"

\* C9's case: a dec run whose prep and copy returned SCRYPT_OK has ended 0.
C9_Witness ==
    /\ Exited
    /\ obs.cmd = "dec"
    /\ Did("copy")
    /\ rc = SCRYPT_OK
    /\ exit_status = 0

\* C10: on every way out taken after the passphrase was acquired, the
\* passphrase buffer is overwritten with zeros before it is freed and before
\* the process exits.
C10_PassphraseZeroedBeforeFree ==
    /\ passwd.mem = "freed" => passwd.bytes = "zero"
    /\ (Exited /\ Did("getpass")) => passwd = [mem |-> "freed", bytes |-> "zero"]

\* C10's case: the run ended on the failure to open the output file.
C10_Witness ==
    /\ Exited
    /\ outfile = "NULL"
    /\ passwd.mem = "freed"

\* C11: every file the program opened is closed exactly once before the
\* process exits: the input file, when it is not standard input, on the info
\* path, after a passphrase failure, after a failure to open the output file
\* and at cleanup; the output file, when it is not standard output, at
\* cleanup.  Standard input and standard output are never closed, and no
\* handle is closed that is not open.
C11_OpenedHandlesClosedOnce ==
    /\ obs.stdCloses = 0
    /\ obs.inOpens <= 1 /\ obs.outOpens <= 1
    /\ obs.inCloses <= obs.inOpens /\ obs.outCloses <= obs.outOpens
    /\ obs.inOpens = 1 <=> infile = "file"
    /\ obs.outOpens = 1 <=> outfile = "file"
    /\ pc \in {"info", "getpass", "prep", "openout", "crypt", "cleanup", "err1", "err2"} =>
          obs.inCloses = 0 /\ obs.outCloses = 0
    /\ (Exited \/ pc = "done") =>
          obs.inCloses = obs.inOpens /\ obs.outCloses = obs.outOpens

\* C11's case: the run ended on a passphrase failure with the input file
\* opened and closed.
C11_Witness ==
    /\ Exited
    /\ Did("getpass_failed")
    /\ obs.inOpens = 1 /\ obs.inCloses = 1

\* C12: an info run never acquires a passphrase, never opens or writes an
\* output file and never calls prep, copy or encrypt, whatever other options
\* it is given: it only hands the input to the parameter-printing operation,
\* and its exit status is 0 exactly when that operation returned SCRYPT_OK.
C12_InfoOnlyPrintsParams ==
    obs.cmd = "info" =>
        /\ obs.passFrom = "none"
        /\ passwd = [mem |-> "none", bytes |-> "none"]
        /\ ~Did("getpass") /\ ~Did("getpass_failed")
        /\ outfile = "stdout" /\ obs.outOpens = 0 /\ ~Did("open_out")
        /\ ~Did("prep") /\ ~Did("copy") /\ ~Did("enc")
        /\ obs.prepArgs = <<>> /\ obs.encArgs = <<>> /\ C = "NULL"
        /\ Did("printparams") => obs.dataFrom = DataFrom
        /\ obs.dataFrom # "none" => Did("printparams")
        /\ Exited => (exit_status = 0 <=> (Did("printparams") /\ rc = SCRYPT_OK))

\* C12's case: "info -f -P infile" has printed the parameters and ended 0.
C12_Witness ==
    /\ Exited /\ exit_status = 0
    /\ obs.cmd = "info"
    /\ force_resources = 1
    /\ passphrase_entry = PASSPHRASE_STDIN_ONCE
    /\ obs.log = <<"open_in", "printparams">>

\* s starts with the characters of pre.
StartsWith(s, pre) == Len(s) >= Len(pre) /\ SubSeq(s, 1, Len(pre)) = pre

\* The text after the first ':' of a string that holds one.
AfterFirstColon(s) ==
    LET k == CHOOSE i \in 1..Len(s) : s[i] = ":" /\ \A j \in 1..(i - 1) : s[j] # ":"
    IN  SubSeq(s, k + 1, Len(s))

\* The method the three dev: forms and the two prefixes stand for, and
\* "rejected" for every other string.
MethodOf(s) ==
    IF s = StrDev \o StrTtyStdin THEN PASSPHRASE_TTY_STDIN
    ELSE IF s = StrDev \o StrStdinOnce THEN PASSPHRASE_STDIN_ONCE
    ELSE IF s = StrDev \o StrTtyOnce THEN PASSPHRASE_TTY_ONCE
    ELSE IF StartsWith(s, StrEnv) THEN PASSPHRASE_ENV
    ELSE IF StartsWith(s, StrFile) THEN PASSPHRASE_FILE
    ELSE "rejected"

\* C13: the argument of --passphrase is accepted exactly when it is
\* dev:tty-stdin, dev:stdin-once or dev:tty-once or starts with env: or
\* file:; each is mapped to its own method, the method argument being the
\* text after the first ':'; every other string ends the run with exit
\* status 1 and "Invalid option: --passphrase <arg>".  The outcome is a
\* function of the argument handed to parse_passphrase_arg, and a run with no
\* -P and no --passphrase uses dev:tty-stdin.
C13_PassphraseArgParsed ==
    /\ obs.passArg # <<>> =>
          LET a == obs.passArg[1]
          IN  IF MethodOf(a) = "rejected"
              THEN /\ Exited /\ exit_status = 1
                   /\ Len(stderr) = 1
                   /\ stderr[1].text = "Invalid option"
                   /\ stderr[1].opt = "--passphrase"
                   /\ stderr[1].arg = a
                   /\ obs.log = <<>>
              ELSE /\ passphrase_entry = MethodOf(a)
                   /\ passphrase_arg = AfterFirstColon(a)
                   /\ \A i \in DOMAIN stderr :
                          ~(stderr[i].text = "Invalid option" /\ stderr[i].opt = "--passphrase")
    /\ (obs.passOpts = 0 /\ infile # "uninit") =>
          passphrase_entry = PASSPHRASE_TTY_STDIN
    /\ (obs.passOpts = 0 /\ obs.passFrom # "none") =>
          obs.passFrom \in {"tty", "stdin"}

\* C13's case: "--passphrase file:k:1" was taken as the file method with
\* the argument "k:1", and the passphrase was read.
C13_Witness ==
    /\ obs.passArg = <<StrFile \o <<"k", ":", "1">>>>
    /\ passphrase_entry = PASSPHRASE_FILE
    /\ passphrase_arg = <<"k", ":", "1">>
    /\ Did("getpass")

\* The nonzero result codes.
ErrorCodes ==
    {SCRYPT_ELIMIT, SCRYPT_ECLOCK, SCRYPT_EKEY, SCRYPT_ESALT, SCRYPT_EOPENSSL,
     SCRYPT_ENOMEM, SCRYPT_EINVAL, SCRYPT_EVERSION, SCRYPT_ETOOBIG,
     SCRYPT_ETOOSLOW, SCRYPT_EPASS, SCRYPT_EWRFILE, SCRYPT_ERDFILE, SCRYPT_EPARAM}

\* The positions of stderr that hold a message other than the parameters
\* of verbose mode.
Diagnostics == {i \in DOMAIN stderr : stderr[i].text # "Parameters used"}

\* Nothing is left to clean up: no passphrase in memory, no cookie awaiting
\* its copy, no file opened and not closed.
CleanedUp ==
    /\ passwd.mem # "live" /\ passwd.bytes # "secret"
    /\ C # "AwaitingCopy"
    /\ obs.inCloses = obs.inOpens /\ obs.outCloses = obs.outOpens

\* C14: every nonzero result code is reported by exactly one diagnostic
\* before exit status 1, and no two codes share a message: EPASS prints
\* "Passphrase is incorrect", EINVAL prints "Input is not valid
\* scrypt-encrypted block", and neither is reported with the message of the
\* other.  The cleanup (cookie free, passphrase zeroing, file close) is
\* complete before the diagnostic is printed.
C14_OneDiagnosticPerErrorAfterCleanup ==
    /\ rc \in {"uninit", SCRYPT_OK} \cup ErrorCodes
    /\ (pc = "done" /\ rc # SCRYPT_OK) =>
          /\ rc \in ErrorCodes
          /\ CleanedUp
          /\ Diagnostics = {}
    /\ (Exited /\ rc \in ErrorCodes) =>
          /\ exit_status = 1
          /\ CleanedUp
          /\ Diagnostics = {Len(stderr)}
          /\ Len(ErrorMessage(rc)) = 1
          /\ stderr[Len(stderr)].text = ErrorMessage(rc)[1].text
          /\ \A c \in ErrorCodes \ {rc} :
                ErrorMessage(c)[1].text # stderr[Len(stderr)].text
          /\ rc = SCRYPT_EPASS =>
                /\ stderr[Len(stderr)].text = "Passphrase is incorrect"
                /\ ~Said("Input is not valid scrypt-encrypted block")
          /\ rc = SCRYPT_EINVAL =>
                /\ stderr[Len(stderr)].text = "Input is not valid scrypt-encrypted block"
                /\ ~Said("Passphrase is incorrect")
    /\ (Said("Passphrase is incorrect") \/ Said("Input is not valid scrypt-encrypted block")) =>
          Exited /\ rc \in {SCRYPT_EPASS, SCRYPT_EINVAL}

\* C14's case: "dec -v infile outfile" with the wrong passphrase has ended
\* with the one diagnostic, the passphrase zeroed and the input file closed.
C14_Witness ==
    /\ Exited /\ exit_status = 1
    /\ obs.cmd = "dec"
    /\ verbose = 1
    /\ rc = SCRYPT_EPASS
    /\ Said("Passphrase is incorrect")
    /\ obs.inOpens = 1 /\ obs.inCloses = 1
    /\ passwd = [mem |-> "freed", bytes |-> "zero"]

\* The place of a step in the order of an enc or dec run.
StepOrder ==
    [s \in {"open_in", "getpass", "getpass_failed", "prep", "open_out", "copy", "enc"} |->
        CASE s = "open_in" -> 1
          [] s \in {"getpass", "getpass_failed"} -> 2
          [] s = "prep" -> 3
          [] s = "open_out" -> 4
          [] OTHER -> 5]

\* C15: in enc and dec runs the steps come in one order: the options are all
\* parsed, then the input file is opened, then the passphrase is acquired,
\* then (dec only) prep, then the output file is opened, then copy or
\* encrypt.  A run whose input file cannot be opened ends with exit status 1
\* and no passphrase prompted for or read; a run whose passphrase
\* acquisition fails never creates the output file.
C15_StepsInFixedOrder ==
    obs.cmd \in {"enc", "dec"} =>
        /\ \A i, j \in DOMAIN obs.log :
              i < j => StepOrder[obs.log[i]] < StepOrder[obs.log[j]]
        /\ obs.log # <<>> => (pc \notin {"start", "getopt"} /\ infile # "uninit")
        /\ (Did("getpass") \/ Did("getpass_failed")) =>
              /\ infile \in {"stdin", "file"}
              /\ infilename # NULL => Did("open_in")
        /\ (Did("prep") \/ Did("open_out") \/ Did("copy") \/ Did("enc")) => Did("getpass")
        /\ Did("prep") <=> (obs.cmd = "dec" /\ obs.prepRc # "none")
        /\ (obs.cmd = "dec" /\ (Did("open_out") \/ Did("copy"))) => Did("prep")
        /\ Did("copy") => obs.cmd = "dec"
        /\ Did("enc") => obs.cmd = "enc"
        /\ ((Did("copy") \/ Did("enc")) /\ outfilename # NULL) => Did("open_out")
        /\ infile = "NULL" =>
              /\ Exited /\ exit_status = 1
              /\ obs.log = <<>>
              /\ obs.passFrom = "none" /\ passwd.mem = "none"
        /\ Did("getpass_failed") =>
              /\ outfile = "stdout" /\ obs.outOpens = 0
              /\ obs.log[Len(obs.log)] = "getpass_failed"
              /\ Exited => exit_status = 1

\* C15's case: a dec run with both file names has gone through every step.
C15_Witness ==
    /\ Exited
    /\ obs.cmd = "dec"
    /\ obs.log = <<"open_in", "getpass", "prep", "open_out", "copy">>

====
